---- MODULE Spec2Model ----
(***************************************************************************)
(* Model of the realtime duplex audio engine of VisionAid:                  *)
(* src/src/visionaid/realtime_client.py (class RealtimeAssistant) and the   *)
(* confidence filter src/src/visionaid/utils/command_validation.py.         *)
(*                                                                          *)
(* Two threads share the RealtimeAssistant object without any lock:         *)
(*   - the capture thread running _mic_stream_loop (pcMic), and             *)
(*   - the websocket thread running _on_message / _on_close (pcWs).         *)
(* A thread can be preempted wherever it calls out of the engine; the       *)
(* calls that block (microphone read, transcribe_audio, build_context) and  *)
(* the call to _wav_bytes between the fallback check and its use of the     *)
(* pending audio are the interleaving points of the model.                  *)
(*                                                                          *)
(* Audio frames are modelled by the one thing the engine inspects: whether  *)
(* their peak reaches REALTIME_SILENCE_THRESHOLD (TRUE = loud).  Durations  *)
(* are counted in frames (chunk_ms = 20 ms: 0.8 s is 40 frames and 0.3 s is *)
(* 15 frames, and the float sums of the code cross the thresholds at        *)
(* exactly those counts), wall-clock time in ticks.                         *)
(***************************************************************************)
EXTENDS Integers, Sequences, FiniteSets, TLC

(* ------------------------------------------------------------------ *)
(* Configuration (config.py), scaled down to small frame/tick counts, *)
(* and the bounds of the exploration.                                  *)
(* ------------------------------------------------------------------ *)
\* REALTIME_SILENCE_DURATION in frames (config.py: 0.8 s = 40 frames)
SilenceFrames == 2
\* REALTIME_MIN_SPEECH_DURATION in frames (config.py: 0.3 s = 15 frames)
MinSpeechFrames == 2
\* _max_buffer_bytes in frames (config.py: 6.0 s = 300 frames)
MaxBufferFrames == 5
\* REALTIME_TRANSCRIPT_TIMEOUT in ticks (config.py: 3.0 s)
TranscriptTimeout == 1
\* REALTIME_OUTPUT_SUPPRESS_SECONDS in ticks (config.py: 0.6 s)
SuppressTicks == 1
\* the clock runs for MaxTime ticks
MaxTime == 2
\* the microphone delivers no frame that would commit an utterance beyond the
\* first MaxUtterances
MaxUtterances == 1
\* at most MaxText text deltas are accumulated per response
MaxText == 1

\* time.time() at start-up: far enough from 0.0, the initial _last_output_time
StartTime == SuppressTicks + TranscriptTimeout
\* scripted frame sequences: frames of leading silence, frames of speech,
\* frames of trailing silence beyond the silence threshold
MaxLead == 2
MaxSpeech == 5
MaxTrailExtra == 1
\* the service streams at most MaxAudio audio deltas
MaxAudio == 2

(* ------------------------------------------------------------------ *)
(* Values                                                              *)
(* ------------------------------------------------------------------ *)
\* Python's None and a present value, as a sequence of length 0 or 1
None == <<>>
Some(v) == <<v>>

\* transcripts as sequences of characters (already stripped by
\* _extract_transcript / transcribe_audio)
TextGo == <<"g", "o", " ", "l", "e", "f", "t">>
TextSee == <<"s", "e", "e", " ", "t", "h", "a", "t">>
TextHi == <<"h", "i">>
TextQue == <<"q", "u", "e", " ", "h", "a", "y">>
Transcripts == {TextGo, TextSee, TextHi, TextQue}
\* a short text in another language
TextSi == <<"s", "i">>

VARIABLES
    \* configuration input: REALTIME_USE_LOCAL_FALLBACK
    useFallback,
    \* RealtimeAssistant fields
    buffer, speech_detected, speech_duration, silence_duration,
    response_in_flight, last_user_text, last_image_path, assistant_text,
    last_output_time, awaiting_transcript, pending_audio, pending_since,
    stop_event, audio_in, audio_out,
    \* the two threads: position and the local user_text of _handle_user_text
    pcMic, micText, pcWs, wsText,
    \* environment: clock, the remote service
    now, srvTranscripts, srvResponses, srvAudio,
    \* history: utterances, fallback calls, response requests, frames, turns
    ncommit, committed, seenTranscript, lastFallback, openCreates, last,
    lastDone,
    \* harnesses: a scripted frame sequence, a call of the confidence filter,
    \* the output device with the audio deltas that arrived, the start-up
    \* of the engine from a configuration and an environment, and the
    \* inbound messages that took no branch of _on_message
    scenario, command, playback, startup, inbound

engineVars == <<buffer, speech_detected, speech_duration, silence_duration,
    response_in_flight, last_user_text, last_image_path, assistant_text,
    last_output_time, awaiting_transcript, pending_audio, pending_since,
    stop_event, audio_in, audio_out>>
vadVars == <<buffer, speech_detected, speech_duration, silence_duration>>
threadVars == <<pcMic, micText, pcWs, wsText>>
envVars == <<now, srvTranscripts, srvResponses, srvAudio>>
\* the local and the remote audio buffer
audioVars == <<vadVars, srvAudio>>
histVars == <<ncommit, committed, seenTranscript, lastFallback, openCreates,
    last, lastDone>>
harnessVars == <<scenario, command, playback, startup, inbound>>
vars == <<useFallback, engineVars, threadVars, envVars, histVars, harnessVars>>

(* ------------------------------------------------------------------ *)
(* Pure helpers on character sequences                                 *)
(* ------------------------------------------------------------------ *)
\* the characters str.strip() and str.split() treat as whitespace
Whitespace == {" ", "\t", "\n"}
Vowels == {"a", "e", "i", "o", "u"}

\* str.lower() on the letters the model uses in upper case
LowerChar(c) ==
    CASE c = "A" -> "a"
      [] c = "S" -> "s"
      [] c = "T" -> "t"
      [] OTHER -> c

Lower(s) == [i \in 1..Len(s) |-> LowerChar(s[i])]

RECURSIVE LStrip(_)
LStrip(s) ==
    IF s # <<>> /\ Head(s) \in Whitespace THEN LStrip(Tail(s)) ELSE s

RECURSIVE RStrip(_)
RStrip(s) ==
    IF s # <<>> /\ s[Len(s)] \in Whitespace
    THEN RStrip(SubSeq(s, 1, Len(s) - 1))
    ELSE s

\* str.strip()
Strip(s) == RStrip(LStrip(s))

\* str.split(): the maximal runs of non-whitespace characters, in order
RECURSIVE SplitFrom(_, _, _)
SplitFrom(s, cur, acc) ==
    IF s = <<>> THEN (IF cur = <<>> THEN acc ELSE Append(acc, cur))
    ELSE IF Head(s) \in Whitespace
    THEN SplitFrom(Tail(s), <<>>, IF cur = <<>> THEN acc ELSE Append(acc, cur))
    ELSE SplitFrom(Tail(s), Append(cur, Head(s)), acc)

Split(s) == SplitFrom(s, <<>>, <<>>)

\* str.endswith(suffix)
EndsWith(s, suf) ==
    /\ Len(suf) <= Len(s)
    /\ SubSeq(s, Len(s) - Len(suf) + 1, Len(s)) = suf

(* ------------------------------------------------------------------ *)
(* utils/command_validation.py                                         *)
(* ------------------------------------------------------------------ *)
\* len(text) < 5
MinChars == 5
\* len(w) > 2
MeaningfulLen == 2
\* len(meaningful) < 2
MinMeaningful == 2

\* the tuple passed to text.endswith(...)
DanglingSuffixes ==
    { <<" ", "a", "n", "d">>, <<" ", "o", "r">>,
      <<" ", "t", "h", "e">>, <<" ", "t", "o">> }

Meaningful(words) == SelectSeq(words, LAMBDA w : Len(w) > MeaningfulLen)

is_confident_command(text) ==
    IF text = <<>> THEN FALSE
    ELSE LET t == Lower(Strip(text)) IN
         IF Len(t) < MinChars THEN FALSE
         ELSE IF ~ \E i \in 1..Len(t) : t[i] \in Vowels THEN FALSE
         ELSE IF Len(Meaningful(Split(t))) < MinMeaningful THEN FALSE
         ELSE IF \E suf \in DanglingSuffixes : EndsWith(t, suf) THEN FALSE
         ELSE TRUE

(* ------------------------------------------------------------------ *)
(* utils/language_guard.py                                             *)
(* ------------------------------------------------------------------ *)
\* langdetect's detect(text): an external classifier; the model fixes its
\* answer per transcript
detect(text) == IF text \in {TextQue, TextSi} THEN "es" ELSE "en"

\* a language guard that takes every text for English
is_english_always(text) == TRUE

is_english(text) ==
    IF text = <<>> \/ Strip(text) = <<>> THEN FALSE
    ELSE detect(text) = "en"

(* ------------------------------------------------------------------ *)
(* RealtimeAssistant: construction                                     *)
(* ------------------------------------------------------------------ *)
NoFrame == [act |-> "none", loud |-> FALSE, window |-> FALSE,
            flight |-> FALSE, awaiting |-> FALSE, detected |-> FALSE,
            size |-> 0, speech |-> 0, silence |-> 0, trail |-> 0,
            sent |-> <<>>, uploaded |-> <<>>]

\* lines 121-146: the fields __init__ assigns, with the environment and the
\* history at their start
FieldsInit ==
    /\ useFallback \in BOOLEAN
    /\ buffer = <<>>
    /\ speech_detected = FALSE
    /\ speech_duration = 0
    /\ silence_duration = 0
    /\ response_in_flight = FALSE
    /\ last_user_text = <<>>
    /\ last_image_path = None
    /\ assistant_text = <<>>
    /\ last_output_time = 0
    /\ awaiting_transcript = FALSE
    /\ pending_audio = None
    /\ pending_since = None
    /\ stop_event = FALSE
    /\ micText = <<>>
    /\ wsText = <<>>
    /\ now = StartTime
    /\ srvTranscripts = {}
    /\ srvResponses = <<>>
    /\ srvAudio = <<>>
    /\ ncommit = 0
    /\ committed = <<>>
    /\ seenTranscript = {}
    /\ lastFallback = None
    /\ openCreates = 0
    /\ last = NoFrame
    /\ lastDone = None

\* the engine constructed and started: run() has opened the audio streams
\* and the connection, and _on_open has started the capture thread
EngineInit ==
    /\ FieldsInit
    /\ audio_in = "started"
    /\ audio_out = "started"
    /\ pcMic = "top"
    /\ pcWs = "idle"

Init ==
    /\ EngineInit
    /\ scenario = None
    /\ command = None
    /\ playback = None
    /\ startup = None
    /\ inbound = <<>>

(* ------------------------------------------------------------------ *)
(* _handle_user_text, run by either thread (mic = TRUE: capture thread *)
(* on the fallback path; FALSE: websocket thread)                      *)
(* ------------------------------------------------------------------ *)
\* the handler returns to its caller: the capture loop goes on to read the
\* next frame, the websocket thread waits for the next message
Return(mic) ==
    IF mic
    THEN pcMic' = "read" /\ micText' = <<>> /\ UNCHANGED <<pcWs, wsText>>
    ELSE pcWs' = "idle" /\ wsText' = <<>> /\ UNCHANGED <<pcMic, micText>>

\* the handler blocks in build_context(user_text)
EnterContext(mic, text) ==
    IF mic
    THEN pcMic' = "ctx" /\ micText' = text /\ UNCHANGED <<pcWs, wsText>>
    ELSE pcWs' = "ctx" /\ wsText' = text /\ UNCHANGED <<pcMic, micText>>

\* _send_event of a response.create: the service queues the response
SendResponseCreate(kind, text) ==
    /\ srvResponses' =
           Append(srvResponses, [kind |-> kind, user |-> text, deltas |-> <<>>])
    /\ openCreates' = openCreates + 1

\* a confidence test that lets every text through
RejectsNothing(text) == FALSE

\* line 199: if not is_confident_command(user_text)
Rejects(text) == ~ is_confident_command(text)

\* a handler that does not look at the response-in-flight flag
FlightIgnored == FALSE

\* line 179: ... or self._response_in_flight
InFlight == response_in_flight

\* lines 179-213: up to the call of build_context
HandleUserText(text, mic) ==
    IF text = <<>> \/ InFlight
    THEN /\ Return(mic)
         /\ UNCHANGED <<response_in_flight, assistant_text, last_user_text,
                        srvResponses, openCreates>>
    ELSE IF ~ is_english(text)
    THEN /\ assistant_text' = <<>>
         /\ response_in_flight' = TRUE
         /\ SendResponseCreate("corrective", text)
         /\ Return(mic)
         /\ UNCHANGED last_user_text
    ELSE IF Rejects(text)
    THEN /\ Return(mic)
         /\ UNCHANGED <<response_in_flight, assistant_text, last_user_text,
                        srvResponses, openCreates>>
    ELSE /\ last_user_text' = text
         /\ EnterContext(mic, text)
         /\ UNCHANGED <<response_in_flight, assistant_text, srvResponses,
                        openCreates>>

\* lines 174-176 and 215-232: build_context has returned image_path
HandleUserTextResume(text, mic, image) ==
    /\ last_image_path' = image
    /\ assistant_text' = <<>>
    /\ response_in_flight' = TRUE
    /\ SendResponseCreate("normal", text)
    /\ Return(mic)

(* ------------------------------------------------------------------ *)
(* _mic_stream_loop: one frame, lines 267-316                          *)
(* ------------------------------------------------------------------ *)
\* the run of quiet frames at the end of a buffer
RECURSIVE TrailingQuiet(_)
TrailingQuiet(b) ==
    IF b = <<>> \/ b[Len(b)] THEN 0
    ELSE 1 + TrailingQuiet(SubSeq(b, 1, Len(b) - 1))

\* a suppression test with no window at all
InSuppressWindowClosed == now - last_output_time < 0

\* now - self._last_output_time < self._output_suppress_seconds
InSuppressWindow == now - last_output_time < SuppressTicks

\* _reset_vad
ResetVad ==
    /\ buffer' = <<>>
    /\ speech_detected' = FALSE
    /\ speech_duration' = 0
    /\ silence_duration' = 0

\* the bytes of a committed utterance: its frames, tagged with the number of
\* the commit they belong to
Utterance(frames, utt) == [frames |-> frames, utt |-> utt]

\* _queue_pending_audio
QueuePendingAudio(audio_bytes) ==
    /\ pending_audio' = Some(audio_bytes)
    /\ pending_since' = Some(now)
    /\ awaiting_transcript' = TRUE

\* lines 307-311: commit, clear, _reset_vad, _queue_pending_audio; the
\* service owes a transcript for the committed audio
CommitUtterance(frames) ==
    /\ ResetVad
    /\ QueuePendingAudio(Utterance(frames, ncommit + 1))
    /\ ncommit' = ncommit + 1
    /\ committed' = Append(committed, [at |-> now, fallbacks |-> 0])
    /\ srvTranscripts' = srvTranscripts \cup {ncommit + 1}

NoCommit ==
    UNCHANGED <<pending_audio, pending_since, awaiting_transcript, ncommit,
                committed, srvTranscripts>>

\* the sum self._buffer.extend(pcm) produces
Extended(loud) == (IF loud /\ ~ speech_detected THEN <<>> ELSE buffer) \o <<loud>>

\* whether the length check of line 293 sends clear and resets
OverCap(b) == Len(b) > MaxBufferFrames

\* a commit test that does not wait for the silence threshold
CommitDueEarly(sil, sp) == sp >= MinSpeechFrames

\* a noise test that never passes
NoiseNeverDue(sil) == FALSE

\* lines 303-306
CommitDue(sil, sp) == sil >= SilenceFrames /\ sp >= MinSpeechFrames

\* line 312
NoiseDue(sil) == sil >= SilenceFrames

\* the time since the last successful playback write (or response.done)
SincePlayback == now - last_output_time

\* _send_event of an input_audio_buffer.append (lines 282-287, 297-302):
\* the service appends the frame to its input audio buffer, unless
\* self._ws.send raised (ok = FALSE), which _send_event only logs
Upload(loud, ok) == IF ok THEN Append(srvAudio, loud) ELSE srvAudio

\* the events of a frame that reached the service
Sent(ok, rest) == (IF ok THEN <<"append">> ELSE <<>>) \o rest

\* what is known of the frame processed last: the branch taken, the session
\* as the frame found it, the buffer and accumulators as the branch left them
\* before any reset, the events sent, and the service's input audio buffer
\* as they left it before any commit or clear
Outcome(act, loud, b, sp, sil, sent, up) ==
    [act |-> act, loud |-> loud, window |-> SincePlayback < SuppressTicks,
     flight |-> response_in_flight, awaiting |-> awaiting_transcript,
     detected |-> speech_detected,
     size |-> Len(b), speech |-> sp, silence |-> sil,
     trail |-> TrailingQuiet(b), sent |-> sent, uploaded |-> up]

ProcessFrame(loud, ok) ==
    IF response_in_flight
    THEN \* line 267: continue
         /\ last' = Outcome("skip", loud, buffer, speech_duration,
                            silence_duration, <<>>, srvAudio)
         /\ UNCHANGED audioVars
         /\ NoCommit
    ELSE IF InSuppressWindow
    THEN \* lines 271-273
         /\ ResetVad
         /\ last' = Outcome("echo", loud, buffer, speech_duration,
                            silence_duration, <<>>, srvAudio)
         /\ UNCHANGED srvAudio
         /\ NoCommit
    ELSE IF loud
    THEN \* lines 276-288
         /\ speech_detected' = TRUE
         /\ speech_duration' = (IF speech_detected THEN speech_duration ELSE 0) + 1
         /\ silence_duration' = (IF speech_detected THEN silence_duration ELSE 0)
         /\ buffer' = Extended(TRUE)
         /\ srvAudio' = Upload(TRUE, ok)
         /\ last' = Outcome("speech", loud, buffer', speech_duration',
                            silence_duration', Sent(ok, <<>>), srvAudio')
         /\ NoCommit
    ELSE IF speech_detected
    THEN \* lines 290-314
         LET sil == silence_duration + 1
             b == Extended(FALSE)
             up == Upload(FALSE, ok)
         IN  IF OverCap(b)
             THEN /\ ResetVad
                  /\ srvAudio' = <<>>
                  /\ last' = Outcome("overflow", loud, b, speech_duration, sil,
                                     <<"clear">>, srvAudio)
                  /\ NoCommit
             ELSE IF CommitDue(sil, speech_duration)
             THEN /\ CommitUtterance(b)
                  /\ srvAudio' = <<>>
                  /\ last' = Outcome("commit", loud, b, speech_duration, sil,
                                     Sent(ok, <<"commit", "clear">>), up)
             ELSE IF NoiseDue(sil)
             THEN /\ ResetVad
                  /\ srvAudio' = <<>>
                  /\ last' = Outcome("noise", loud, b, speech_duration, sil,
                                     Sent(ok, <<"clear">>), up)
                  /\ NoCommit
             ELSE /\ buffer' = b
                  /\ silence_duration' = sil
                  /\ srvAudio' = up
                  /\ UNCHANGED <<speech_detected, speech_duration>>
                  /\ last' = Outcome("trailing", loud, b, speech_duration, sil,
                                     Sent(ok, <<>>), up)
                  /\ NoCommit
    ELSE \* line 316: quiet frame before any speech
         /\ last' = Outcome("drop", loud, buffer, speech_duration,
                            silence_duration, <<>>, srvAudio)
         /\ UNCHANGED audioVars
         /\ NoCommit

\* a fallback test that never passes
FallbackNeverDue == FALSE

\* a fallback test that does not wait for the transcript timeout
FallbackDueAtOnce ==
    /\ useFallback
    /\ awaiting_transcript
    /\ pending_audio # None

(* ------------------------------------------------------------------ *)
(* Capture thread                                                      *)
(* ------------------------------------------------------------------ *)
\* _maybe_fallback_transcription, lines 240-247: whether it goes on
FallbackDue ==
    /\ useFallback
    /\ awaiting_transcript
    /\ pending_audio # None
    /\ TranscriptTimeout > 0
    /\ ~ (now - pending_since[1] < TranscriptTimeout)

\* line 256 and the checks of _maybe_fallback_transcription
MicTop ==
    /\ pcMic = "top"
    /\ pcMic' = IF stop_event THEN "exit"
                ELSE IF FallbackDue THEN "fallback" ELSE "read"
    /\ UNCHANGED <<harnessVars, useFallback, engineVars, micText, pcWs, wsText, envVars,
                   histVars>>

\* what is known of a call of transcribe_audio: the utterance whose audio it
\* is given, how long after that utterance's commit, whether a transcript
\* event for it had been handled, and how many calls that utterance has had
FallbackCall(audio) ==
    [utt |-> audio.utt,
     waited |-> now - committed[audio.utt].at,
     seen |-> \E hasText \in BOOLEAN : <<audio.utt, hasText>> \in seenTranscript,
     seenText |-> <<audio.utt, TRUE>> \in seenTranscript,
     calls |-> committed[audio.utt].fallbacks + 1]

\* lines 248-251: _wav_bytes(self._pending_audio) raises TypeError on None
\* (the capture thread dies); otherwise the record is cleared and
\* transcribe_audio is called
MicFallbackCall ==
    /\ pcMic = "fallback"
    /\ IF pending_audio = None
       THEN /\ pcMic' = "crashed"
            /\ UNCHANGED <<pending_audio, awaiting_transcript, lastFallback,
                           committed>>
       ELSE /\ pending_audio' = None
            /\ awaiting_transcript' = FALSE
            /\ pcMic' = "transcribe"
            /\ lastFallback' = Some(FallbackCall(pending_audio[1]))
            /\ committed' =
                   [committed EXCEPT ![pending_audio[1].utt].fallbacks = @ + 1]
    /\ UNCHANGED <<harnessVars, useFallback, audioVars, response_in_flight, last_user_text,
                   last_image_path, assistant_text, last_output_time,
                   pending_since, stop_event, audio_in, audio_out, micText, pcWs, wsText, envVars,
                   ncommit, seenTranscript, openCreates, last, lastDone>>

\* lines 251-253: transcribe_audio returns text, or "" on failure
MicFallbackResultText(transcript) ==
    /\ pcMic = "transcribe"
    /\ IF transcript = <<>>
       THEN /\ pcMic' = "read"
            /\ UNCHANGED <<micText, pcWs, wsText, response_in_flight,
                           assistant_text, last_user_text, srvResponses,
                           openCreates>>
       ELSE HandleUserText(transcript, TRUE)
    /\ UNCHANGED <<harnessVars, useFallback, audioVars, last_image_path, last_output_time,
                   awaiting_transcript, pending_audio, pending_since,
                   stop_event, audio_in, audio_out, now, srvTranscripts, ncommit,
                   committed, seenTranscript, lastFallback, last, lastDone>>

MicFallbackResult ==
    \E transcript \in Transcripts \cup {<<>>} :
        MicFallbackResultText(transcript)

\* build_context returns on the fallback path
MicContextReturn ==
    /\ pcMic = "ctx"
    /\ \E image \in {None, Some("img")} :
           HandleUserTextResume(micText, TRUE, image)
    /\ UNCHANGED <<harnessVars, useFallback, audioVars, last_user_text, last_output_time,
                   awaiting_transcript, pending_audio, pending_since,
                   stop_event, audio_in, audio_out, now, srvTranscripts, ncommit,
                   committed, seenTranscript, lastFallback, last, lastDone>>

\* lines 259-316: a frame is read and processed
ReadFrame(loud, ok) ==
    /\ pcMic = "read"
    /\ audio_in = "started"
    /\ ProcessFrame(loud, ok)
    /\ pcMic' = "top"
    /\ UNCHANGED <<useFallback, response_in_flight, last_user_text,
                   last_image_path, assistant_text, last_output_time,
                   stop_event, audio_in, audio_out, micText, pcWs, wsText, now, srvResponses,
                   seenTranscript, lastFallback, openCreates, lastDone>>

\* the microphone delivers any frame, within the bounds: no loud frame once
\* the buffer is past its cap, no frame that commits one utterance too many;
\* sends is the set of outcomes the send of its append event can have
Frames(utterances, sends) ==
    /\ \E loud \in BOOLEAN, ok \in sends :
           /\ loud => Len(buffer) <= MaxBufferFrames
           /\ ReadFrame(loud, ok)
    /\ ncommit' <= utterances
    /\ UNCHANGED harnessVars

\* every send succeeds
MicFrame == Frames(MaxUtterances, {TRUE})

\* lines 262-265: the read raises; the loop logs, sleeps and continues
MicReadFailed ==
    /\ pcMic = "read"
    /\ pcMic' = "top"
    /\ UNCHANGED <<harnessVars, useFallback, engineVars, micText, pcWs, wsText, envVars,
                   histVars>>

(* ------------------------------------------------------------------ *)
(* Websocket thread: _on_message, _on_close                            *)
(* ------------------------------------------------------------------ *)
\* a websocket thread that goes on handling messages after the close
WsReadyAfterClose == pcWs = "idle"

\* the websocket thread is between two messages and the connection is open
WsReady == pcWs = "idle" /\ ~ stop_event

\* lines 351-356: a completed transcription event carrying text, for a
\* committed utterance u (earlier transcripts still outstanding are lost)
OnTranscriptText(text) ==
    /\ WsReady
    /\ \E u \in srvTranscripts :
           /\ srvTranscripts' = {v \in srvTranscripts : v > u}
           /\ seenTranscript' = seenTranscript \cup {<<u, TRUE>>}
           /\ pending_audio' = None
           /\ awaiting_transcript' = FALSE
           /\ HandleUserText(text, FALSE)
    /\ UNCHANGED <<harnessVars, useFallback, audioVars, last_image_path, last_output_time,
                   pending_since, stop_event, audio_in, audio_out, now, ncommit,
                   committed, lastFallback, last, lastDone>>

OnTranscript == \E text \in Transcripts : OnTranscriptText(text)

\* lines 351-352 with _extract_transcript lines 74-88: a completed
\* transcription event for a committed utterance u whose transcript is empty
\* or blank; _extract_transcript returns "", the event matches no other
\* branch and nothing is changed
OnBlankTranscript ==
    /\ WsReady
    /\ \E u \in srvTranscripts :
           /\ srvTranscripts' = {v \in srvTranscripts : v > u}
           /\ seenTranscript' = seenTranscript \cup {<<u, FALSE>>}
    /\ UNCHANGED <<harnessVars, useFallback, engineVars, threadVars, now,
                   srvResponses, srvAudio, ncommit, committed, lastFallback,
                   openCreates, last, lastDone>>

\* build_context returns in the websocket thread
WsContextReturn ==
    /\ pcWs = "ctx"
    /\ \E image \in {None, Some("img")} :
           HandleUserTextResume(wsText, FALSE, image)
    /\ UNCHANGED <<harnessVars, useFallback, audioVars, last_user_text, last_output_time,
                   awaiting_transcript, pending_audio, pending_since,
                   stop_event, audio_in, audio_out, now, srvTranscripts, ncommit,
                   committed, seenTranscript, lastFallback, last, lastDone>>

\* the deltas a response.output_text.delta event can carry
TextDeltas == {"x", " "}

\* the service notes what it streamed for its oldest open response
Streamed(d) ==
    [srvResponses EXCEPT ![1].deltas = Append(srvResponses[1].deltas, d)]

\* lines 358-363
OnTextDelta ==
    /\ WsReady
    /\ srvResponses # <<>>
    /\ Len(srvResponses[1].deltas) < MaxText
    /\ \E delta \in TextDeltas :
           /\ assistant_text' = Append(assistant_text, delta)
           /\ srvResponses' = Streamed(delta)
    /\ UNCHANGED <<harnessVars, useFallback, audioVars, response_in_flight, last_user_text,
                   last_image_path, last_output_time, awaiting_transcript,
                   pending_audio, pending_since, stop_event, audio_in, audio_out, threadVars, now,
                   srvTranscripts, histVars>>

\* lines 365-374: a response.audio.delta event carrying delta (empty or
\* not); the write to the output device succeeds (written) or raises
AudioDelta(delta, written) ==
    /\ WsReady
    /\ srvResponses # <<>>
    /\ last_output_time' =
           IF delta # <<>> /\ written THEN now ELSE last_output_time
    /\ UNCHANGED <<useFallback, audioVars, response_in_flight, last_user_text,
                   last_image_path, assistant_text, awaiting_transcript,
                   pending_audio, pending_since, stop_event, audio_in, audio_out, threadVars,
                   envVars, histVars>>

OnAudioDelta ==
    /\ \E written \in BOOLEAN : AudioDelta(<<"pcm">>, written)
    /\ UNCHANGED harnessVars

\* what is known of a handled response.done: the kind of the response the
\* service completed, whether log_interaction was called, and how the Turn
\* it was given compares with the transcript that triggered that response
\* and with the text deltas the service streamed for it
Completion(response, logged, turn) ==
    [kind |-> response.kind,
     logged |-> logged,
     streamed |-> response.deltas # <<>>,
     blank |-> Strip(response.deltas) = <<>>,
     userIsTrigger |-> turn.user = response.user,
     textIsConcat |-> turn.assistant = response.deltas,
     textIsStripped |-> turn.assistant = Strip(response.deltas)]

\* line 384: if self._last_user_text and assistant_text
ShouldLog(user_text, text) == user_text # <<>> /\ text # <<>>

\* lines 376-394
OnResponseDone ==
    /\ WsReady
    /\ srvResponses # <<>>
    /\ srvResponses' = Tail(srvResponses)
    /\ response_in_flight' = FALSE
    /\ last_output_time' = now
    /\ LET text == Strip(assistant_text)
           logged == ShouldLog(last_user_text, text)
           turn == [user |-> last_user_text, assistant |-> text,
                    image |-> last_image_path]
       IN  lastDone' = Some(Completion(srvResponses[1], logged, turn))
    /\ last_user_text' = <<>>
    /\ last_image_path' = None
    /\ openCreates' = 0
    /\ UNCHANGED <<harnessVars, useFallback, audioVars, assistant_text, awaiting_transcript,
                   pending_audio, pending_since, stop_event, audio_in, audio_out, threadVars, now,
                   srvTranscripts, ncommit, committed,
                   seenTranscript, lastFallback, last>>

\* _on_close, and the finally of run() on a shutdown signal
OnClose ==
    /\ WsReady
    /\ stop_event' = TRUE
    /\ UNCHANGED <<audio_in, audio_out>>
    /\ UNCHANGED <<harnessVars, useFallback, audioVars, response_in_flight, last_user_text,
                   last_image_path, assistant_text, last_output_time,
                   awaiting_transcript, pending_audio, pending_since,
                   threadVars, envVars, histVars>>

\* lines 447-449, 453-455: stream.stop() then stream.close() inside one
\* try; an exception from either is swallowed, and one from stop() skips
\* close()
Release(stream, stopped, closed) ==
    IF ~ stopped THEN stream
    ELSE IF ~ closed THEN "stopped"
    ELSE "closed"

\* lines 444-457: run_forever has returned after the close (or was
\* interrupted); the finally block releases the two audio streams
RunFinally ==
    /\ stop_event
    /\ pcWs = "idle"
    /\ pcWs' = "done"
    /\ \E inStopped, inClosed, outStopped, outClosed \in BOOLEAN :
           /\ audio_in' = Release(audio_in, inStopped, inClosed)
           /\ audio_out' = Release(audio_out, outStopped, outClosed)
    /\ UNCHANGED <<harnessVars, useFallback, audioVars, response_in_flight,
                   last_user_text, last_image_path, assistant_text,
                   last_output_time, awaiting_transcript, pending_audio,
                   pending_since, stop_event, pcMic, micText, wsText,
                   envVars, histVars>>

\* the wall clock advances
Tick ==
    /\ now < StartTime + MaxTime
    /\ now' = now + 1
    /\ UNCHANGED <<harnessVars, useFallback, engineVars, threadVars, srvTranscripts,
                   srvResponses, srvAudio, histVars>>

Next ==
    \/ MicTop
    \/ MicFallbackCall
    \/ MicFallbackResult
    \/ MicContextReturn
    \/ MicFrame
    \/ MicReadFailed
    \/ OnTranscript
    \/ OnBlankTranscript
    \/ WsContextReturn
    \/ OnTextDelta
    \/ OnAudioDelta
    \/ OnResponseDone
    \/ OnClose
    \/ Tick

Spec == Init /\ [][Next]_vars

(* ------------------------------------------------------------------ *)
(* The capture thread alone, the service silent: one utterance more    *)
(* than under Spec                                                     *)
(* ------------------------------------------------------------------ *)
CaptureFrame == Frames(MaxUtterances + 1, {TRUE})

NextCapture ==
    \/ MicTop
    \/ MicFallbackCall
    \/ MicFallbackResult
    \/ MicContextReturn
    \/ CaptureFrame
    \/ MicReadFailed
    \/ Tick

SpecCapture == Init /\ [][NextCapture]_vars

(* ------------------------------------------------------------------ *)
(* Both threads with a service that can answer a response.create with   *)
(* an error event; the clock stands still.  Every step of the engine    *)
(* and every event the service owes is eventually taken.                *)
(* ------------------------------------------------------------------ *)
\* lines 344-394: an event of type "error" for the oldest open response
\* carries no transcript and matches none of the handled types, so
\* _on_message falls through and changes nothing; the service has dropped
\* the response and will send no response.done for it
OnErrorEvent ==
    /\ WsReady
    /\ srvResponses # <<>>
    /\ srvResponses' = Tail(srvResponses)
    /\ UNCHANGED <<harnessVars, useFallback, engineVars, threadVars, now,
                   srvTranscripts, srvAudio, histVars>>

NextLive ==
    \/ MicTop
    \/ MicFrame
    \/ MicReadFailed
    \/ OnTranscript
    \/ WsContextReturn
    \/ OnTextDelta
    \/ OnResponseDone
    \/ OnErrorEvent

FairLive ==
    /\ WF_vars(MicTop)
    /\ WF_vars(MicFrame)
    /\ WF_vars(OnTranscript)
    /\ WF_vars(WsContextReturn)
    /\ WF_vars(OnResponseDone)

SpecLive == Init /\ [][NextLive]_vars /\ FairLive

(* ------------------------------------------------------------------ *)
(* Both threads, the transcripts including a short text in another     *)
(* language; the service streams no deltas and the connection stays    *)
(* open                                                                *)
(* ------------------------------------------------------------------ *)
AllTranscripts == Transcripts \cup {TextSi}

HandlerTranscript == \E text \in AllTranscripts : OnTranscriptText(text)

HandlerFallbackResult ==
    \E transcript \in AllTranscripts \cup {<<>>} :
        MicFallbackResultText(transcript)

NextHandler ==
    \/ MicTop
    \/ MicFallbackCall
    \/ HandlerFallbackResult
    \/ MicContextReturn
    \/ MicFrame
    \/ HandlerTranscript
    \/ WsContextReturn
    \/ OnResponseDone
    \/ Tick

SpecHandler == Init /\ [][NextHandler]_vars

\* the same, with the capture thread always taking its next step and the
\* clock advancing; the service owes nothing: a transcript or a
\* response.done may never come.  The clock of the model stops after
\* MaxTime ticks, so the microphone delivers no frame that commits an
\* utterance too late for its transcript timeout to run out.
TimeoutFrame ==
    /\ MicFrame
    /\ ncommit' > ncommit => now + TranscriptTimeout <= StartTime + MaxTime

NextTimeout ==
    \/ MicTop
    \/ MicFallbackCall
    \/ HandlerFallbackResult
    \/ MicContextReturn
    \/ TimeoutFrame
    \/ HandlerTranscript
    \/ WsContextReturn
    \/ OnResponseDone
    \/ Tick

FairCapture ==
    /\ WF_vars(MicTop)
    /\ WF_vars(MicFallbackCall)
    /\ WF_vars(HandlerFallbackResult)
    /\ WF_vars(MicContextReturn)
    /\ WF_vars(TimeoutFrame)
    /\ WF_vars(Tick)

SpecTimeout == Init /\ [][NextTimeout]_vars /\ FairCapture

(* ------------------------------------------------------------------ *)
(* Both threads, one utterance more than under Spec; the clock stands  *)
(* still, so no fallback is due                                        *)
(* ------------------------------------------------------------------ *)
NextSession ==
    \/ MicTop
    \/ CaptureFrame
    \/ OnTranscript
    \/ WsContextReturn
    \/ OnResponseDone

SpecSession == Init /\ [][NextSession]_vars

(* ------------------------------------------------------------------ *)
(* The capture thread alone with transient I/O faults: a microphone    *)
(* read can raise, the send of an append event can raise; the clock    *)
(* stands still and the service is silent                              *)
(* ------------------------------------------------------------------ *)
UploadFrame == Frames(MaxUtterances + 1, BOOLEAN)

NextUpload ==
    \/ MicTop
    \/ UploadFrame
    \/ MicReadFailed

SpecUpload == Init /\ [][NextUpload]_vars

(* ------------------------------------------------------------------ *)
(* Both threads up to the end of run(): the service is silent until    *)
(* the connection closes or a shutdown signal arrives, and the audio   *)
(* streams are released                                                *)
(* ------------------------------------------------------------------ *)
NextShutdown ==
    \/ MicTop
    \/ MicFallbackCall
    \/ MicFallbackResult
    \/ MicContextReturn
    \/ MicFrame
    \/ MicReadFailed
    \/ OnClose
    \/ RunFinally
    \/ Tick

SpecShutdown == Init /\ [][NextShutdown]_vars

(* ------------------------------------------------------------------ *)
(* Start-up: run_realtime() constructs the engine from a configuration *)
(* and an environment and runs it                                      *)
(* ------------------------------------------------------------------ *)
\* config.py as shipped: names as character sequences, numbers by their
\* sign and range (the silence threshold in hundredths)
ShippedConfig ==
    [STT_MODEL |-> <<"m">>,
     REALTIME_TRANSCRIPTION_MODEL |-> <<"m">>,
     REALTIME_TRANSCRIPT_TIMEOUT |-> 3,
     REALTIME_MODEL |-> <<"m">>,
     REALTIME_VOICE |-> <<"v">>,
     REALTIME_SAMPLE_RATE |-> 1,
     REALTIME_CHUNK_MS |-> 1,
     REALTIME_MIN_SPEECH_DURATION |-> 1,
     REALTIME_SILENCE_THRESHOLD |-> 1,
     REALTIME_SILENCE_DURATION |-> 1,
     REALTIME_OUTPUT_SUPPRESS_SECONDS |-> 1,
     REALTIME_MAX_OUTPUT_TOKENS |-> 1,
     REALTIME_MAX_BUFFER_SECONDS |-> 1,
     MAX_RESPONSE_TOKENS |-> 1,
     VISION_MAX_TOKENS |-> 1,
     VISION_MAX_DIM |-> 1,
     VISION_JPEG_QUALITY |-> 70,
     MEMORY_TOP_K |-> 2]

\* the configurations explored: the shipped one with some values replaced
Configs ==
    {[ShippedConfig EXCEPT !.REALTIME_MODEL = model,
                           !.REALTIME_TRANSCRIPT_TIMEOUT = timeout,
                           !.REALTIME_SAMPLE_RATE = rate,
                           !.REALTIME_SILENCE_THRESHOLD = threshold,
                           !.VISION_JPEG_QUALITY = quality,
                           !.MEMORY_TOP_K = top_k] :
        model \in {<<>>, <<" ">>, <<"m">>},
        timeout \in {-1, 0, 3},
        rate \in {0, 1},
        threshold \in {0, 1, 100, 101},
        quality \in {0, 70, 101},
        top_k \in {-1, 0}}

\* os.environ.get("OPENAI_API_KEY"): unset, empty or set
ApiKeys == {None, Some(<<>>), Some(<<"k">>)}

\* a validation that accepts every configuration
validate_nothing(cfg) == TRUE

\* config.py lines 71-104: TRUE when no _require raises (every value has
\* the type config.py gives it)
validate_config(cfg) ==
    /\ Strip(cfg.STT_MODEL) # <<>>
    /\ Strip(cfg.REALTIME_TRANSCRIPTION_MODEL) # <<>>
    /\ cfg.REALTIME_TRANSCRIPT_TIMEOUT >= 0
    /\ Strip(cfg.REALTIME_MODEL) # <<>>
    /\ Strip(cfg.REALTIME_VOICE) # <<>>
    /\ cfg.REALTIME_SAMPLE_RATE > 0
    /\ cfg.REALTIME_CHUNK_MS > 0
    /\ cfg.REALTIME_MIN_SPEECH_DURATION > 0
    /\ 0 < cfg.REALTIME_SILENCE_THRESHOLD
    /\ cfg.REALTIME_SILENCE_THRESHOLD <= 100
    /\ cfg.REALTIME_SILENCE_DURATION > 0
    /\ cfg.REALTIME_OUTPUT_SUPPRESS_SECONDS >= 0
    /\ cfg.REALTIME_MAX_OUTPUT_TOKENS > 0
    /\ cfg.REALTIME_MAX_BUFFER_SECONDS > 0
    /\ cfg.MAX_RESPONSE_TOKENS > 0
    /\ cfg.VISION_MAX_TOKENS > 0
    /\ cfg.VISION_MAX_DIM > 0
    /\ 1 <= cfg.VISION_JPEG_QUALITY
    /\ cfg.VISION_JPEG_QUALITY <= 100
    /\ cfg.MEMORY_TOP_K >= 0

\* before run_realtime(): no engine, no stream, no connection, no thread
InitSetup ==
    /\ FieldsInit
    /\ audio_in = "none"
    /\ audio_out = "none"
    /\ pcMic = "unstarted"
    /\ pcWs = "unstarted"
    /\ scenario = None
    /\ command = None
    /\ playback = None
    /\ startup \in {Some([config |-> cfg, api_key |-> key, stage |-> "new",
                           ws |-> FALSE]) : cfg \in Configs, key \in ApiKeys}
    /\ inbound = <<>>

SetupStep(stage) ==
    /\ startup # None
    /\ startup[1].stage = stage
    /\ UNCHANGED <<scenario, command, playback, inbound, useFallback, audioVars,
                   response_in_flight, last_user_text, last_image_path,
                   assistant_text, last_output_time, awaiting_transcript,
                   pending_audio, pending_since, stop_event, micText, wsText,
                   envVars, histVars>>

\* lines 114-149: RealtimeAssistant() raises ValueError from
\* validate_config, RuntimeError on a missing key, or returns the engine
Construct ==
    /\ SetupStep("new")
    /\ startup' = Some([startup[1] EXCEPT !.stage =
           IF ~ validate_config(startup[1].config) THEN "raised"
           ELSE IF startup[1].api_key \in {None, Some(<<>>)} THEN "raised"
           ELSE "constructed"])
    /\ UNCHANGED <<audio_in, audio_out, pcMic, pcWs>>

\* lines 404-421: _setup_audio opens and starts the two streams
SetupAudio ==
    /\ SetupStep("constructed")
    /\ audio_in' = "started"
    /\ audio_out' = "started"
    /\ startup' = Some([startup[1] EXCEPT !.stage = "audio"])
    /\ UNCHANGED <<pcMic, pcWs>>

\* lines 423-435: _setup_ws creates the WebSocketApp
SetupWs ==
    /\ SetupStep("audio")
    /\ startup' = Some([startup[1] EXCEPT !.stage = "ws", !.ws = TRUE])
    /\ UNCHANGED <<audio_in, audio_out, pcMic, pcWs>>

\* line 441 and lines 318-342: run_forever connects, _on_open starts the
\* capture thread
RunForever ==
    /\ SetupStep("ws")
    /\ pcWs' = "idle"
    /\ pcMic' = "top"
    /\ startup' = Some([startup[1] EXCEPT !.stage = "running"])
    /\ UNCHANGED <<audio_in, audio_out>>

NextSetup ==
    \/ Construct
    \/ SetupAudio
    \/ SetupWs
    \/ RunForever

SpecSetup == InitSetup /\ [][NextSetup]_vars

(* ------------------------------------------------------------------ *)
(* Both threads and the output device: the service streams numbered     *)
(* audio deltas for a response it leaves open                           *)
(* ------------------------------------------------------------------ *)
InitPlayback ==
    /\ EngineInit
    /\ scenario = None
    /\ command = None
    /\ playback = Some([device |-> <<>>, events |-> <<>>])
    /\ startup = None
    /\ inbound = <<>>

\* an output device that plays the newest chunk first
WriteFirst(device, pcm) == <<pcm>> \o device

\* self._audio_out.write(pcm): the device plays the chunk after those it
\* was given before
Write(device, pcm) == Append(device, pcm)

\* lines 365-374: the next audio delta arrives, empty or carrying the chunk
\* id; the event is noted with what the handler did about it: whether the
\* last-playback time differed from the clock, whether it was set to the
\* clock, whether it was left as it was, and whether the websocket thread
\* returned to wait for the next message
PlaybackDelta ==
    /\ playback # None
    /\ Len(playback[1].events) < MaxAudio
    /\ LET id == Len(playback[1].events) + 1 IN
       \E delta \in {<<>>, <<id>>}, written \in BOOLEAN :
           /\ AudioDelta(delta, written)
           /\ playback' = Some(
                  [device |-> IF delta # <<>> /\ written
                              THEN Write(playback[1].device, delta[1])
                              ELSE playback[1].device,
                   events |-> Append(playback[1].events,
                                     [id |-> id,
                                      empty |-> delta = <<>>,
                                      written |-> written,
                                      fresh |-> last_output_time # now,
                                      stamped |-> last_output_time' = now,
                                      kept |-> last_output_time' = last_output_time,
                                      ready |-> pcWs' = "idle" /\ ~ stop_event'])])
    /\ UNCHANGED <<scenario, command, startup, inbound>>

NextPlayback ==
    \/ MicTop
    \/ MicFrame
    \/ OnTranscript
    \/ WsContextReturn
    \/ PlaybackDelta
    \/ Tick

SpecPlayback == InitPlayback /\ [][NextPlayback]_vars

(* ------------------------------------------------------------------ *)
(* The capture loop fed a scripted sequence: lead quiet frames, speech  *)
(* loud frames, trail quiet frames; the clock stands still and the      *)
(* service is silent                                                    *)
(* ------------------------------------------------------------------ *)
Scenarios ==
    {[lead |-> l, speech |-> sp, trail |-> t, fed |-> 0, commits |-> <<>>] :
        l \in 0..MaxLead, sp \in MinSpeechFrames..MaxSpeech,
        t \in SilenceFrames..(SilenceFrames + MaxTrailExtra)}

InitScenario ==
    /\ EngineInit
    /\ scenario \in {Some(sc) : sc \in Scenarios}
    /\ command = None
    /\ playback = None
    /\ startup = None
    /\ inbound = <<>>

\* the next frame of the script is read and processed; a commit is noted
\* with the number of the frame that caused it and the audio it queued
ScenarioFrame ==
    /\ scenario # None
    /\ LET sc == scenario[1]
           i == sc.fed + 1
       IN  /\ i <= sc.lead + sc.speech + sc.trail
           /\ ReadFrame(sc.lead < i /\ i <= sc.lead + sc.speech, TRUE)
           /\ scenario' = Some(
                  [sc EXCEPT !.fed = i,
                             !.commits =
                                 IF last'.act = "commit"
                                 THEN Append(@, [at |-> i,
                                                 frames |-> pending_audio'[1].frames])
                                 ELSE @])
    /\ UNCHANGED <<command, playback, startup, inbound>>

NextScenario ==
    \/ MicTop
    \/ ScenarioFrame

SpecScenario == InitScenario /\ [][NextScenario]_vars

(* ------------------------------------------------------------------ *)
(* is_confident_command applied to one text                            *)
(* ------------------------------------------------------------------ *)
Words ==
    { <<"s", "e", "e">>,
      <<"i", "t">>,
      <<"a", "n", "d">>,
      <<"o", "r">>,
      <<"t", "o">>,
      <<"t", "h", "e">>,
      <<"t", "h", "e", "m">>,
      <<"h", "i">>,
      <<"u", "h">>,
      <<"h", "m", "m">>,
      <<"g", "o">>,
      <<"l", "e", "f", "t">> }

\* the separators a transcript can carry between words
Separators == {" ", "\t", "\n"}

LongCommand ==
    << 
       "c", "a", "n", " ", "y", "o", "u", " ", "t", "e", "l", "l",
       " ", "m", "e", " ", "w", "h", "a", "t", "'", "s", " ", "i",
       "n", " ", "f", "r", "o", "n", "t", " ", "o", "f", " ", "m",
       "e" >>

\* one word; two and three words joined by any separators; the long command;
\* a command in capitals with whitespace around it
Commands ==
    Words
    \cup {w1 \o <<s>> \o w2 : w1 \in Words, s \in Separators, w2 \in Words}
    \cup {<<"s", "e", "e">> \o <<s1>> \o w2 \o <<s2>> \o w3 :
              s1 \in {" "}, w2 \in {<<"i", "t">>, <<"t", "h", "e", "m">>},
              s2 \in Separators, w3 \in Words}
    \cup {LongCommand, <<" ", "S", "e", "e", " ", "T", "h", "e", "m", " ">>, <<" ", "A", "t", " ">>}

InitFilter ==
    /\ EngineInit
    /\ scenario = None
    /\ playback = None
    /\ startup = None
    /\ inbound = <<>>
    /\ command \in {Some([text |-> t, called |-> FALSE, accepted |-> FALSE]) :
                        t \in Commands}

\* the filter is called on the text and its answer kept
FilterCall ==
    /\ command # None
    /\ ~ command[1].called
    /\ command' = Some([command[1] EXCEPT
                            !.called = TRUE,
                            !.accepted = is_confident_command(command[1].text)])
    /\ UNCHANGED <<useFallback, engineVars, threadVars, envVars, histVars,
                   scenario, playback, startup, inbound>>

NextFilter == FilterCall

SpecFilter == InitFilter /\ [][NextFilter]_vars

(* ------------------------------------------------------------------ *)
(* Claims                                                              *)
(* ------------------------------------------------------------------ *)

\* C1: no second response.create is sent while a response is in flight:
\* between any two response.create events sent by the engine (by either
\* thread) a response.done has been handled, so at most one response.create
\* has been sent since the last handled response.done.
C1_OneResponseInFlight == openCreates <= 1

\* C2: an utterance is committed only at a frame where the contiguous
\* silence since the last loud frame has reached the silence-duration
\* threshold and the accumulated speech has reached the minimum speech
\* duration; pauses shorter than the threshold never add up to a commit.
C2_CommitOnlyAfterContiguousSilence ==
    last.act = "commit" =>
        /\ last.trail >= SilenceFrames
        /\ last.speech >= MinSpeechFrames

\* C3: after any captured frame has been processed the local utterance
\* buffer holds at most the maximum-buffer-duration cap.
C3_BufferWithinCap == Len(buffer) <= MaxBufferFrames

\* C4: a frame that makes the buffered audio exceed the cap forces an
\* utterance emission: the buffered audio is committed, not discarded.
C4_OverCapForcesEmission ==
    last.size > MaxBufferFrames => last.act = "commit"

VadIsReset ==
    /\ buffer = <<>>
    /\ ~ speech_detected
    /\ speech_duration = 0
    /\ silence_duration = 0

C7_LoggedTurnMatchesResponse ==
    lastDone # None /\ lastDone[1].logged =>
        /\ lastDone[1].userIsTrigger
        /\ lastDone[1].textIsStripped

\* n frames, all loud or all quiet
Run(n, loud) == [k \in 1..n |-> loud]

DanglingTokens ==
    { <<"a", "n", "d">>, <<"o", "r">>, <<"t", "h", "e">>, <<"t", "o">> }

\* the filter as C9 words it, on whitespace-separated tokens
ClaimedConfident(text) ==
    LET t == Lower(Strip(text))
        tokens == Split(t)
    IN  /\ Len(t) >= 5
        /\ \E i \in 1..Len(t) : t[i] \in Vowels
        /\ Cardinality({k \in 1..Len(tokens) : Len(tokens[k]) > 2}) >= 2
        /\ tokens # <<>> => tokens[Len(tokens)] \notin DanglingTokens

\* C9: is_confident_command(text) is True exactly when the trimmed,
\* lower-cased text has at least 5 characters, a vowel, at least two
\* whitespace-separated tokens longer than 2 characters and no dangling
\* last token (and, or, the, to); it rejects "and", "uh", "hi" and accepts
\* "can you tell me what's in front of me".
C9_FilterIsAsWorded ==
    command # None /\ command[1].called =>
        /\ command[1].accepted = ClaimedConfident(command[1].text)
        /\ command[1].text \in {<<"a", "n", "d">>, <<"u", "h">>, <<"h", "i">>}
               => ~ command[1].accepted
        /\ command[1].text = LongCommand => command[1].accepted

\* C10: while a committed utterance awaits its transcript or a response is
\* in flight, the capture loop sends no input_audio_buffer.commit and never
\* replaces the pending fallback audio: every commit is made by a frame that
\* found the session idle.
C10_CommitOnlyWhenIdle ==
    last.act = "commit" => ~ last.awaiting /\ ~ last.flight

\* C11: whenever a response is in flight the response-in-flight flag is
\* eventually cleared, so that capture frames are processed by the VAD
\* again, also when the service answers the request with an error event.
C11_FlightEventuallyCleared ==
    response_in_flight ~> ~ response_in_flight

\* C12: once the connection has closed the session is Idle (neither
\* awaiting a transcript nor with a response in flight) and the pending
\* fallback audio and its timestamp are cleared.
C12_CloseResetsSession ==
    stop_event =>
        /\ ~ awaiting_transcript
        /\ ~ response_in_flight
        /\ pending_audio = None
        /\ pending_since = None

\* C13: the corrective response sent for a text whose detected language is
\* not English logs no Turn when it completes.
C13_CorrectiveLogsNoTurn ==
    lastDone # None /\ lastDone[1].kind = "corrective" => ~ lastDone[1].logged

\* _handle_user_text returns without a response request, without calling
\* build_context and without changing a field of the session
HandlerDrops(text) ==
    /\ srvResponses' = srvResponses
    /\ openCreates' = openCreates
    /\ OnTranscriptText(text) => pcWs' = "idle"
    /\ MicFallbackResultText(text) => pcMic' = "read"
    /\ UNCHANGED <<response_in_flight, last_user_text, last_image_path,
                   assistant_text>>

IdleAfter == ~ awaiting_transcript' /\ ~ response_in_flight'

\* C14 as stated: for every candidate text (remote or fallback) that the
\* confidence filter rejects, handling it sends no response.create, does
\* not call context enrichment, changes no session field and leaves the
\* session Idle.
C14_RejectedTextIsDropped ==
    [][\A text \in AllTranscripts :
           /\ ~ is_confident_command(text)
           /\ OnTranscriptText(text) \/ MicFallbackResultText(text)
           => HandlerDrops(text) /\ IdleAfter]_vars

\* C14 as amended: a candidate text detected as English that the confidence
\* filter rejects is dropped (no response.create, no context enrichment, no
\* session field changed by the handler) and the session is Idle afterwards
\* unless a response was already in flight; a rejected text not detected as
\* English meets the language guard first and, with no response in flight,
\* gets the corrective response.create.
C14_EnglishRejectedTextIsDropped ==
    [][\A text \in AllTranscripts :
           /\ ~ is_confident_command(text)
           /\ OnTranscriptText(text) \/ MicFallbackResultText(text)
           => IF is_english(text)
              THEN /\ HandlerDrops(text)
                   /\ ~ response_in_flight => IdleAfter
              ELSE ~ response_in_flight =>
                       /\ response_in_flight'
                       /\ srvResponses' =
                              Append(srvResponses,
                                     [kind |-> "corrective", user |-> text,
                                      deltas |-> <<>>])]_vars

\* C14 witness: a remote transcript has been handled with no response in
\* flight and nothing came of it: no response requested or completed, no
\* handler in build_context, no fallback involved.
C14_TranscriptDropped ==
    /\ seenTranscript # {}
    /\ srvResponses = <<>>
    /\ lastDone = None
    /\ lastFallback = None
    /\ pcWs = "idle"
    /\ ~ response_in_flight
    /\ ~ awaiting_transcript

\* what handling a non-empty transcript leaves behind, read off a step:
\* the flag, the accumulated text, the recorded user text, the requests the
\* service holds, and whether the handler went on into build_context
Handled(ctx) ==
    <<response_in_flight', assistant_text', last_user_text', srvResponses',
      ctx>>

\* what a transcript-completed event with this text leaves behind
RemoteOutcome(text) ==
    IF response_in_flight
    THEN <<TRUE, assistant_text, last_user_text, srvResponses, FALSE>>
    ELSE IF detect(text) # "en"
    THEN <<TRUE, <<>>, last_user_text,
           Append(srvResponses,
                  [kind |-> "corrective", user |-> text, deltas |-> <<>>]),
           FALSE>>
    ELSE IF ~ is_confident_command(text)
    THEN <<FALSE, assistant_text, last_user_text, srvResponses, FALSE>>
    ELSE <<FALSE, assistant_text, text, srvResponses, TRUE>>

FallbackAsRemote ==
    \A text \in AllTranscripts :
        /\ OnTranscriptText(text) =>
               Handled(pcWs' = "ctx") = RemoteOutcome(text)
        /\ MicFallbackResultText(text) =>
               /\ Handled(pcMic' = "ctx") = RemoteOutcome(text)
               /\ pending_audio' = None
               /\ ~ awaiting_transcript'

TimedOut ==
    /\ awaiting_transcript
    /\ pending_since # None
    /\ now - pending_since[1] >= TranscriptTimeout

\* C16 as stated: a committed utterance whose transcript has not arrived
\* within the transcript timeout does not go on waiting: the fallback is
\* triggered and the session is no longer AwaitingTranscript.
C16_TimedOutUtteranceLeavesWait ==
    TimedOut ~> ~ awaiting_transcript

\* C16 as amended: the same when the local fallback is enabled.
C16_TimedOutUtteranceLeavesWaitWithFallback ==
    (useFallback /\ TimedOut) ~> ~ awaiting_transcript

\* C16 witness: with no transcript event ever handled, the fallback was
\* called for the timed-out utterance and the session left
\* AwaitingTranscript.
C16_FallbackEndedWait ==
    /\ useFallback
    /\ lastFallback # None
    /\ lastFallback[1].waited >= TranscriptTimeout
    /\ seenTranscript = {}
    /\ ~ awaiting_transcript

\* C17: after the handler has processed any transcript-completed event for
\* the committed audio, the pending audio is empty and the
\* awaiting-transcript flag is false.
C17_TranscriptClearsPending ==
    [][OnTranscript \/ OnBlankTranscript =>
           pending_audio' = None /\ ~ awaiting_transcript']_vars

\* C18: the interaction logger is only called while a response.done is
\* handled: the step that closes the connection or signals shutdown logs no
\* Turn, and no Turn is logged after it, so a response in flight at that
\* moment is never logged.
C18_NoTurnLoggedOnOrAfterClose ==
    [][stop_event' => lastDone' = lastDone]_vars

\* C18 witness: the connection closed while a response to a recorded user
\* text was in flight with text already accumulated for it.
C18_ClosedWithResponseInFlight ==
    /\ stop_event
    /\ response_in_flight
    /\ srvResponses # <<>>
    /\ last_user_text # <<>>
    /\ Strip(assistant_text) # <<>>

\* C19: under every interleaving of the two threads the session is in
\* exactly one of Idle, AwaitingTranscript and ResponseInFlight (the
\* awaiting-transcript flag and the response-in-flight flag are never both
\* true), and the awaiting-transcript flag is true exactly when pending
\* fallback audio is present.
C19_SessionConsistent ==
    /\ ~ (awaiting_transcript /\ response_in_flight)
    /\ awaiting_transcript <=> pending_audio # None

\* C20: while the session is not Idle (awaiting a transcript or with a
\* response in flight) a captured frame is still fed to VAD tracking: a loud
\* frame outside the echo-suppression window is accumulated as speech.
C20_FramesTrackedWhileBusy ==
    (last.awaiting \/ last.flight) /\ last.loud /\ ~ last.window
        => last.act = "speech"

\* the branches of the capture loop that run self._buffer.extend(pcm) on a
\* quiet frame (line 292)
QuietAppends == {"trailing", "commit", "noise", "overflow"}

\* C21: a frame whose peak is below the silence threshold is appended to the
\* utterance buffer if and only if speech had already been detected in the
\* current utterance; a quiet frame seen before any speech is dropped and
\* leaves the buffer and both accumulators unchanged.
C21_QuietFrameAppendedIffSpeech ==
    last.act # "none" /\ ~ last.loud =>
        /\ last.act \in QuietAppends <=> last.detected
        /\ ~ last.detected =>
               /\ Len(buffer) = last.size
               /\ speech_duration = last.speech
               /\ silence_duration = last.silence

\* a step of the capture loop that has read a frame
FrameStep == pcMic = "read" /\ pcMic' = "top"

\* C22: when the trailing silence of the buffered audio reaches the
\* silence-duration threshold while the accumulated speech is below the
\* minimum speech duration, the segmenter resets: the buffer is dropped, an
\* input_audio_buffer.clear is sent, no commit is sent and no pending
\* fallback audio is queued.
C22_ShortSpeechIsReset ==
    [][/\ FrameStep
       /\ ~ last'.loud
       /\ last'.trail >= SilenceFrames
       /\ last'.speech < MinSpeechFrames
       => /\ VadIsReset'
          /\ \E k \in 1..Len(last'.sent) : last'.sent[k] = "clear"
          /\ \A k \in 1..Len(last'.sent) : last'.sent[k] # "commit"
          /\ UNCHANGED <<pending_audio, pending_since, awaiting_transcript,
                         ncommit>>]_vars

\* C22 witness: a short burst of speech followed by silence up to the
\* threshold has just been discarded as noise.
C22_NoiseDiscarded ==
    /\ last.act = "noise"
    /\ last.speech > 0
    /\ last.speech < MinSpeechFrames
    /\ last.trail >= SilenceFrames
    /\ VadIsReset

\* s ends with t
IsSuffix(t, s) ==
    /\ Len(t) <= Len(s)
    /\ SubSeq(s, Len(s) - Len(t) + 1, Len(s)) = t

\* C23: every frame of a committed utterance was sent as an
\* input_audio_buffer.append before the commit, in capture order, and the
\* commit is followed at once by a clear, a VAD reset and the start of the
\* fallback timer with a copy of exactly those frames as the pending audio.
C23_CommittedFramesWereAppended ==
    [][FrameStep /\ ncommit' > ncommit =>
           /\ IsSuffix(pending_audio'[1].frames, last'.uploaded)
           /\ last'.sent = <<"append", "commit", "clear">>
           /\ VadIsReset'
           /\ srvAudio' = <<>>
           /\ Len(pending_audio'[1].frames) = last'.size
           /\ pending_since' = Some(now)
           /\ awaiting_transcript']_vars

\* the chunks of the audio deltas that were written successfully, in the
\* order the events arrived
RECURSIVE PlayedIds(_)
PlayedIds(events) ==
    IF events = <<>> THEN <<>>
    ELSE LET e == events[Len(events)]
             rest == PlayedIds(SubSeq(events, 1, Len(events) - 1))
         IN  IF ~ e.empty /\ e.written THEN Append(rest, e.id) ELSE rest

\* C24: audio deltas are written to the output device in the order their
\* events arrive, each at most once and with no reordering; the
\* last-playback time is set after each successful write and left unchanged
\* by a failed write, and after a failed write the handler is ready for the
\* later deltas.
C24_PlaybackInArrivalOrder ==
    playback # None =>
        /\ playback[1].device = PlayedIds(playback[1].events)
        /\ \A k \in 1..Len(playback[1].events) :
               LET e == playback[1].events[k] IN
               /\ ~ e.empty /\ e.written => e.stamped
               /\ ~ (~ e.empty /\ e.written) => e.kept
               /\ e.ready

\* C24 witness: a write failed, the next delta was played, and both
\* happened at a time other than the last playback time.
C24_PlayedAfterFailedWrite ==
    /\ playback # None
    /\ \E k \in 2..Len(playback[1].events) :
           LET e == playback[1].events[k - 1]
               f == playback[1].events[k]
           IN  /\ ~ e.empty /\ ~ e.written /\ e.fresh
               /\ ~ f.empty /\ f.written /\ f.fresh
    /\ playback[1].device # <<>>

\* C25: after a response.done event has been handled the session is Idle
\* and the per-turn accumulators are reset: response-in-flight is false and
\* the recorded user text, the image reference and the accumulated
\* assistant text are all empty.
C25_DoneResetsTurn ==
    [][OnResponseDone =>
           /\ ~ response_in_flight'
           /\ ~ awaiting_transcript'
           /\ last_user_text' = <<>>
           /\ last_image_path' = None
           /\ assistant_text' = <<>>]_vars

\* the frame processed last called _send_event with an append event and the
\* send raised
AppendFailed(frame) ==
    /\ frame.act \in {"speech", "trailing", "commit", "noise"}
    /\ \A k \in 1..Len(frame.sent) : frame.sent[k] # "append"

\* C26: a transient I/O fault (a microphone read that fails, a send of an
\* append event that fails) never stops the capture loop, and when it occurs
\* while an utterance is being buffered that utterance is dropped: the VAD
\* state is reset and the audio is not committed.
C26_FaultDropsUtterance ==
    [][/\ speech_detected
       /\ MicReadFailed \/ (FrameStep /\ last' # last /\ AppendFailed(last'))
       => /\ pcMic' = "top"
          /\ VadIsReset'
          /\ ncommit' = ncommit]_vars

Released(stream) == stream = "closed"

\* C27: when the connection closes or a shutdown signal is received the
\* stop event is set, the capture loop ends at its next loop test (it
\* finishes at most the iteration it is in and sends no event afterwards),
\* and both audio streams are stopped and closed.
C27_CloseStopsLoopAndStreams ==
    [][/\ OnClose => stop_event'
       /\ stop_event /\ pcMic = "top" => pcMic' \in {"top", "exit"}
       /\ pcMic = "exit" =>
              UNCHANGED <<pcMic, srvAudio, srvResponses, srvTranscripts, ncommit>>
       /\ RunFinally => Released(audio_in') /\ Released(audio_out')]_vars

\* C28: when the API key is missing or a configuration value is invalid,
\* constructing the engine raises an error and no audio device is opened,
\* no connection is created and no capture thread is started.
C28_SetupFaultAcquiresNothing ==
    startup # None =>
        LET st == startup[1]
            cfg == st.config
            fault ==
                \/ st.api_key = None
                \/ st.api_key = Some(<<>>)
                \/ Strip(cfg.REALTIME_MODEL) = <<>>
                \/ cfg.REALTIME_TRANSCRIPT_TIMEOUT < 0
                \/ cfg.REALTIME_SAMPLE_RATE <= 0
                \/ cfg.REALTIME_SILENCE_THRESHOLD <= 0
                \/ cfg.REALTIME_SILENCE_THRESHOLD > 100
                \/ cfg.VISION_JPEG_QUALITY < 1
                \/ cfg.VISION_JPEG_QUALITY > 100
                \/ cfg.MEMORY_TOP_K < 0
        IN  /\ fault =>
                /\ st.stage \in {"new", "raised"}
                /\ audio_in = "none" /\ audio_out = "none"
                /\ ~ st.ws
                /\ pcWs = "unstarted"
                /\ pcMic = "unstarted"
            /\ st.stage = "raised" => fault

\* C28 witness: construction raised on a configuration that is invalid only
\* by a blank model name, with the key set.
C28_RaisedOnBlankModel ==
    /\ startup # None
    /\ startup[1].stage = "raised"
    /\ startup[1].api_key = Some(<<"k">>)
    /\ startup[1].config = [ShippedConfig EXCEPT !.REALTIME_MODEL = <<" ">>,
                                                  !.MEMORY_TOP_K = 0]
    /\ audio_in = "none"

\* response.create events known to have been sent: those the service still
\* holds, and the one whose response.done was handled last
CreatesSent == Len(srvResponses) + (IF lastDone # None THEN 1 ELSE 0)

\* C29: each committed utterance leads to at most one response request: the
\* number of response.create events sent never exceeds the number of
\* input_audio_buffer.commit events sent, also when the remote transcript
\* of an utterance arrives after its fallback transcription was answered.
C29_CreatesWithinCommits == CreatesSent <= ncommit

\* C30: with every send succeeding, the service's input audio buffer always
\* equals the local utterance buffer: whenever the local buffer is reset the
\* frames appended remotely have been committed or cleared, so a commit
\* never includes audio that is absent from the local pending copy.
C30_RemoteBufferEqualsLocal ==
    /\ srvAudio = buffer
    /\ last.act = "commit" => Len(last.uploaded) = last.size

\* C31: while the connection is open the capture loop is never ended by an
\* error: under every interleaving with the inbound handler, and whatever
\* the fallback transcription or the context enrichment returns, the loop
\* goes on to read the next frame.
C31_CaptureLoopSurvives == ~ stop_event => pcMic # "crashed"

\* C32: a transcript-completed event handled while a response is in flight
\* sends no event and leaves the response-in-flight flag, the recorded user
\* text, the image reference and the accumulated assistant text unchanged;
\* its only effect is to clear the pending fallback audio and the
\* awaiting-transcript flag.
C32_TranscriptInFlightOnlyClears ==
    [][\A text \in AllTranscripts :
           response_in_flight /\ OnTranscriptText(text) =>
               /\ pending_audio' = None
               /\ ~ awaiting_transcript'
               /\ UNCHANGED <<response_in_flight, last_user_text,
                              last_image_path, assistant_text>>
               /\ UNCHANGED <<srvResponses, srvAudio, openCreates>>
               /\ UNCHANGED <<audioVars, last_output_time, pending_since,
                              stop_event, audio_in, audio_out, threadVars>>]_vars

\* C32 witness: the fallback ran for the utterance, its remote transcript
\* has been handled as well, and exactly one response has been requested
\* and is in flight.
C32_LateTranscriptWhileInFlight ==
    /\ lastFallback # None
    /\ ~ lastFallback[1].seen
    /\ <<lastFallback[1].utt, TRUE>> \in seenTranscript
    /\ response_in_flight
    /\ Len(srvResponses) = 1
    /\ openCreates = 1
    /\ lastDone = None
    /\ pcWs = "idle"
    /\ pcMic \in {"top", "read"}
    /\ pending_audio = None
    /\ ~ awaiting_transcript

(* ------------------------------------------------------------------ *)
(* Inbound messages.  A message is garbage (not JSON), JSON that is    *)
(* not an object, or an object with the keys _on_message and           *)
(* _extract_transcript read.  Event names are words joined by "." and  *)
(* "_"; a name is the sequence of its words, and the substring tests   *)
(* of _extract_transcript, whose keys are whole words of the names the *)
(* service sends, are tests on the words.                              *)
(* ------------------------------------------------------------------ *)
MaxDropped == 1

TypeCompleted ==
    <<"conversation", "item", "input", "audio", "transcription", "completed">>
TypePartial ==
    <<"conversation", "item", "input", "audio", "transcription", "delta">>
TypeFailed ==
    <<"conversation", "item", "input", "audio", "transcription", "failed">>
TypeTextDelta == <<"response", "output", "text", "delta">>
TypeAudioDelta == <<"response", "audio", "delta">>
TypeDone == <<"response", "done">>
TypeErrorEvent == <<"error">>
\* the transcript of the assistant's own speech
TypeSpoken == <<"response", "audio", "transcript", "done">>

\* a content part of data["item"]["content"]
Part(text, transcript) == [text |-> text, transcript |-> transcript]

\* the object of a message; a missing key is None
Data(type, transcript, text, content) ==
    [type |-> type, transcript |-> transcript, text |-> text,
     content |-> content]

Message(shape, data) == [shape |-> shape, data |-> data]

Event(type, transcript, text, content) ==
    Message("object", Data(Some(type), transcript, text, content))

\* key in event_type
Contains(event_type, key) == \E k \in 1..Len(event_type) : event_type[k] = key

\* isinstance(value, str) and value.strip()
HasText(value) == value # None /\ Strip(value[1]) # <<>>

\* lines 80-87: the first text or transcript of a content part
RECURSIVE FromContent(_)
FromContent(content) ==
    IF content = <<>> THEN <<>>
    ELSE IF HasText(Head(content).text) THEN Strip(Head(content).text[1])
    ELSE IF HasText(Head(content).transcript)
    THEN Strip(Head(content).transcript[1])
    ELSE FromContent(Tail(content))

\* an extraction that does not look at the type of the event
extract_untyped(data) ==
    IF HasText(data.transcript) THEN Strip(data.transcript[1])
    ELSE IF HasText(data.text) THEN Strip(data.text[1])
    ELSE FromContent(data.content)

\* lines 69-88
extract_transcript(data) ==
    LET event_type == IF data.type = None THEN <<>> ELSE data.type[1] IN
    IF ~ Contains(event_type, "transcription") THEN <<>>
    ELSE IF ~ \E key \in {"completed", "done", "final"} :
                  Contains(event_type, key)
    THEN <<>>
    ELSE IF HasText(data.transcript) THEN Strip(data.transcript[1])
    ELSE IF HasText(data.text) THEN Strip(data.text[1])
    ELSE FromContent(data.content)

\* a dispatch that takes the service's error event for the end of the
\* response
BranchErrorEnds(m) ==
    IF m.shape = "garbage" THEN "return"
    ELSE IF m.shape # "object" THEN "raise"
    ELSE IF extract_transcript(m.data) # <<>> THEN "transcript"
    ELSE IF m.data.type = Some(TypeTextDelta) THEN "text"
    ELSE IF m.data.type = Some(TypeAudioDelta) THEN "audio"
    ELSE IF m.data.type \in {Some(TypeDone), Some(TypeErrorEvent)} THEN "done"
    ELSE "none"

\* lines 345-376: the branch of _on_message a message takes.  json.loads
\* raises on garbage and the handler returns; data.get raises on JSON
\* that is not an object, before any assignment
Branch(m) ==
    IF m.shape = "garbage" THEN "return"
    ELSE IF m.shape # "object" THEN "raise"
    ELSE IF extract_transcript(m.data) # <<>> THEN "transcript"
    ELSE IF m.data.type = Some(TypeTextDelta) THEN "text"
    ELSE IF m.data.type = Some(TypeAudioDelta) THEN "audio"
    ELSE IF m.data.type = Some(TypeDone) THEN "done"
    ELSE "none"

\* what is known of a message that took no branch: the message, the
\* utterance whose fallback was pending when it arrived, and whether a
\* response was in flight
Unhandled(m) ==
    [message |-> m,
     waiting |-> IF awaiting_transcript /\ pending_audio # None
                 THEN Some(pending_audio[1].utt) ELSE None,
     flight |-> response_in_flight]

\* lines 345-348, 350, and the fall through the end of _on_message
Dropped(m) ==
    /\ inbound' = Append(inbound, Unhandled(m))
    /\ UNCHANGED <<scenario, command, playback, startup, useFallback,
                   engineVars, threadVars, envVars, histVars>>

\* lines 344-394: _on_message for message m.  The text of a text delta,
\* the outcome of the write of an audio delta and the utterance a
\* transcript belongs to are drawn in the branch
OnMessage(m) ==
    /\ WsReady
    /\ LET branch == Branch(m) IN
       CASE branch = "transcript" ->
                OnTranscriptText(extract_transcript(m.data))
         [] branch = "text" -> OnTextDelta
         [] branch = "audio" -> OnAudioDelta
         [] branch = "done" -> OnResponseDone
         [] OTHER -> Dropped(m)

NoKeys == Data(None, None, None, <<>>)

\* completed transcription events with the text under either key or in a
\* content part, padded or not
CompletedMessages ==
    {Event(TypeCompleted, Some(TextSee), None, <<>>),
     Event(TypeCompleted, None, Some(<<" ">> \o TextSee \o <<"\n">>), <<>>),
     Event(TypeCompleted, None, None,
           <<Part(None, None), Part(Some(<<" ">>), Some(TextSee))>>)}

\* a partial event carrying text, a failed event, and completed events
\* with a blank text and with no text
UnfinishedMessages ==
    {Event(TypePartial, Some(TextSee), None, <<>>),
     Event(TypeFailed, None, None, <<>>),
     Event(TypeCompleted, Some(<<" ">>), None, <<>>),
     Event(TypeCompleted, None, None, <<>>)}

\* garbage, JSON that is not an object, the error event, an object with no
\* type, and the transcript of the assistant's speech
OtherMessages ==
    {Message("garbage", NoKeys),
     Message("array", NoKeys),
     Message("object", NoKeys),
     Event(TypeErrorEvent, None, None, <<>>),
     Event(TypeSpoken, Some(TextSee), None, <<>>)}

ResponseMessages ==
    {Event(TypeTextDelta, None, None, <<>>),
     Event(TypeAudioDelta, None, None, <<>>),
     Event(TypeDone, None, None, <<>>)}

\* the service sends a transcript for a committed utterance
InboundCompleted ==
    /\ srvTranscripts # {}
    /\ \E m \in CompletedMessages : OnMessage(m)

\* the service sends at most MaxDropped events of a transcription that
\* is not finished or came to nothing, and of any other kind
InboundUnfinished ==
    /\ Len(inbound) < MaxDropped
    /\ \E m \in UnfinishedMessages : OnMessage(m)

InboundOther ==
    /\ Len(inbound) < MaxDropped
    /\ \E m \in OtherMessages : OnMessage(m)

InboundResponse ==
    /\ srvResponses # <<>>
    /\ \E m \in ResponseMessages : OnMessage(m)

\* the service ends a response without streaming deltas
InboundDone ==
    /\ srvResponses # <<>>
    /\ OnMessage(Event(TypeDone, None, None, <<>>))

\* transcribe_audio returns a text or fails
InboundFallbackResult ==
    \E transcript \in {TextSee, <<>>} : MicFallbackResultText(transcript)

\* both threads with the fallback transcription and the clock; the
\* service sends transcription events of every kind and ends responses
NextInbound ==
    \/ MicTop
    \/ MicFallbackCall
    \/ InboundFallbackResult
    \/ MicContextReturn
    \/ MicFrame
    \/ InboundCompleted
    \/ InboundUnfinished
    \/ InboundDone
    \/ WsContextReturn
    \/ Tick

SpecInbound == Init /\ [][NextInbound]_vars

\* both threads with the clock standing still; the service sends
\* transcripts, streams and ends responses, and sends messages of other
\* kinds
NextDispatch ==
    \/ MicTop
    \/ MicFrame
    \/ InboundCompleted
    \/ InboundOther
    \/ InboundResponse
    \/ WsContextReturn

SpecDispatch == Init /\ [][NextDispatch]_vars

\* C33: only a transcription event that is completed and carries text
\* other than blanks takes the transcript path, where the pending fallback
\* audio and the awaiting-transcript flag are cleared; a partial event, a
\* failed event and a completed event with a blank or with no text send
\* nothing and change no field, so the pending fallback audio and the
\* awaiting-transcript flag stay as they were.
C33_OnlyFinishedTextTriggers ==
    [][/\ InboundCompleted => pending_audio' = None /\ ~ awaiting_transcript'
       /\ InboundUnfinished =>
              UNCHANGED <<useFallback, engineVars, threadVars, envVars,
                          histVars, scenario, command, playback, startup>>]_vars

\* C33 witness: a partial transcription event carrying text arrived while
\* the fallback of the utterance was pending; no transcript was handled,
\* the fallback transcription ran for that utterance afterwards, and the
\* response it requested is in flight.
C33_FallbackAfterPartialEvent ==
    /\ Len(inbound) = 1
    /\ inbound[1].message = Event(TypePartial, Some(TextSee), None, <<>>)
    /\ inbound[1].waiting # None
    /\ lastFallback # None
    /\ lastFallback[1].utt = inbound[1].waiting[1]
    /\ seenTranscript = {}
    /\ response_in_flight
    /\ Len(srvResponses) = 1

\* C34: a message that is not JSON or not a JSON object, the service's
\* error event, and an event of a type _on_message does not handle (with or
\* without a transcript in it) change no field of the session, send no
\* event and write no audio.
C34_UnhandledMessageChangesNothing ==
    [][InboundOther =>
           UNCHANGED <<useFallback, engineVars, threadVars, envVars,
                       histVars, scenario, command, playback, startup>>]_vars

\* C34 witness: the service's error event arrived while a response was in
\* flight, and the response is still in flight.
C34_ErrorEventWhileInFlight ==
    /\ Len(inbound) = 1
    /\ inbound[1].message = Event(TypeErrorEvent, None, None, <<>>)
    /\ inbound[1].flight
    /\ response_in_flight
    /\ srvResponses # <<>>
    /\ pcWs = "idle"

====
